---------------------------- MODULE Spec2Model ----------------------------
(***************************************************************************)
(* A model of polymarket_data/market.py: the PolymarketMarket object, its  *)
(* constructor from_market_id, refresh_quotes, load_all_trades,            *)
(* load_price_history and build_yes_price_history.                         *)
(*                                                                         *)
(* Conventions.                                                            *)
(*  - An Optional value is a sequence of length <= 1: None is << >> and a  *)
(*    present value v is <<v>>.                                            *)
(*  - A probability is an integer number of units of 10^-Resolution, so    *)
(*    1.0 is One.  round(x, 6) keeps multiples of Quantum.                 *)
(*  - A DataFrame is the sequence of its rows, in index order.             *)
(*  - Every operation is one atomic step.  The variables op, raised,       *)
(*    requests, fed and ret record the last call: its name, the exception  *)
(*    it raised ("none" when it returned), the outbound requests it        *)
(*    issued, what the feeds answered, and the value it returned; args and *)
(*    sent record the arguments of a history call and the parameters of    *)
(*    the requests it sent.  threads holds, for each thread that shares    *)
(*    the object, the position of its refresh_quotes call, the metadata it *)
(*    fetched and the quote it last read.                                  *)
(***************************************************************************)
EXTENDS Integers, Naturals, Sequences, FiniteSets, TLC

VARIABLES
    constructed,        \* TRUE once from_market_id has returned an object
    question,           \* PolymarketMarket.question
    clob_token_yes,     \* Optional[str]
    clob_token_no,      \* Optional[str]
    active,             \* bool
    closed,             \* bool
    end_date,           \* Optional[datetime]
    best_bid_yes,       \* Optional[float]
    best_ask_yes,       \* Optional[float]
    best_bid_no,        \* Optional[float]
    best_ask_no,        \* Optional[float]
    trades_yes,         \* Optional[DataFrame(timestamp, p)]
    trades_no,          \* Optional[DataFrame(timestamp, p)]
    price_history_yes,  \* Optional[DataFrame(timestamp, price)]
    price_history_no,   \* Optional[DataFrame(timestamp, price)]
    op,                 \* name of the last call
    raised,             \* exception of the last call, "none" if it returned
    requests,           \* outbound requests the last call issued
    fed,                \* what the feeds answered to the last call
    ret,                \* Optional return value of the last call
    args,               \* hours_back and fidelity of the last call, if it takes them
    sent,               \* parameters of the /prices-history requests of the last call
    threads             \* the refresh_quotes call each thread is running, step by step

market == <<constructed, question, clob_token_yes, clob_token_no, active, closed,
            end_date, best_bid_yes, best_ask_yes, best_bid_no, best_ask_no,
            trades_yes, trades_no, price_history_yes, price_history_no>>

call == <<op, raised, requests, fed, ret, args, sent>>

vars == <<market, call, threads>>

None == << >>

Some(v) == <<v>>

(***************************************************************************)
(* Bounds of the model.                                                    *)
(***************************************************************************)
\* decimal places a probability of the model carries
Resolution == 7

\* longest trade list the trade feed answers
MaxTrades == 3

\* longest history list the history feed answers for one token
MaxHistory == 3

(***************************************************************************)
(* Arithmetic on probabilities.                                            *)
(***************************************************************************)
\* round(..., 6) in _derive_no_side_quotes
Ndigits == 6

One == 10 ^ Resolution

Quantum == 10 ^ (Resolution - Ndigits)

\* the decimal number n * 10^-d, d <= Resolution
Dec(n, d) == n * (10 ^ (Resolution - d))

Abs(x) == IF x < 0 THEN -x ELSE x

\* 1.0 - p
Complement(p) == One - p

\* round(x, 6): the multiples of Quantum nearest to x.  Python rounds the
\* binary value of the float, which for a decimal tie lies on either side
\* of the tie, so a tie may go either way.
Round(x) ==
    LET lo == x - (x % Quantum)
        r  == x % Quantum
    IN  IF 2 * r < Quantum THEN {lo}
        ELSE IF 2 * r > Quantum THEN {lo + Quantum}
        ELSE {lo, lo + Quantum}

(***************************************************************************)
(* The metadata feed: client.get_market_details.                           *)
(***************************************************************************)
\* details.get("clobTokenIds") values the feed may answer
TokenFieldValues ==
    { None,
      Some(""),
      Some("not json"),
      Some("null"),
      Some("[]"),
      Some("[\"Y\"]"),
      Some("[\"Y\",\"N\"]"),
      Some("[\"Y\",\"Y\"]"),
      Some("[\"Y\",\"\"]"),
      Some("[\"Y\",\"N\",\"Z\"]") }

\* json.loads: "error" is JSONDecodeError, "list" an array with its items,
\* "scalar" a decoded value that has no len()
json_loads(s) ==
    CASE s = "[]"                  -> [kind |-> "list", items |-> << >>]
      [] s = "[\"Y\"]"             -> [kind |-> "list", items |-> <<"Y">>]
      [] s = "[\"Y\",\"N\"]"       -> [kind |-> "list", items |-> <<"Y", "N">>]
      [] s = "[\"Y\",\"Y\"]"       -> [kind |-> "list", items |-> <<"Y", "Y">>]
      [] s = "[\"Y\",\"\"]"        -> [kind |-> "list", items |-> <<"Y", "">>]
      [] s = "[\"Y\",\"N\",\"Z\"]" -> [kind |-> "list", items |-> <<"Y", "N", "Z">>]
      [] s = "null"                -> [kind |-> "scalar", items |-> << >>]
      [] OTHER                     -> [kind |-> "error", items |-> << >>]

\* Python truthiness of an Optional[str]
Truthy(o) == o # None /\ o[1] # ""

\* lines 77-86 of from_market_id: the exception raised ("none" if none)
\* and the two tokens; len() of a decoded scalar is a TypeError, which the
\* except json.JSONDecodeError clause does not catch
ParseTokens(raw_tokens) ==
    IF ~Truthy(raw_tokens)
    THEN [raised |-> "none", yes |-> None, no |-> None]
    ELSE LET tokens == json_loads(raw_tokens[1])
         IN  CASE tokens.kind = "error" ->
                    [raised |-> "none", yes |-> None, no |-> None]
               [] tokens.kind = "scalar" ->
                    [raised |-> "TypeError", yes |-> None, no |-> None]
               [] Len(tokens.items) >= 2 ->
                    [raised |-> "none",
                     yes |-> Some(tokens.items[1]),
                     no  |-> Some(tokens.items[2])]
               [] OTHER ->
                    [raised |-> "none", yes |-> None, no |-> None]

\* str.replace("Z", "+00:00")
ReplaceZ(s) ==
    IF s = "2025-01-01T00:00:00Z" THEN "2025-01-01T00:00:00+00:00" ELSE s

\* datetime.fromisoformat: None stands for the ValueError it raises
fromisoformat(s) ==
    IF s \in {"2025-01-01T00:00:00+00:00", "2026-06-30T12:00:00+00:00"}
    THEN Some(s)
    ELSE None

\* __post_init__: a str end_date is parsed, None on failure
PostInitEndDate(raw) ==
    IF raw = None THEN None ELSE fromisoformat(ReplaceZ(raw[1]))

\* lines 125-132 of refresh_quotes: the end date after the call
RefreshEndDate(raw, old) ==
    IF ~Truthy(raw) THEN old
    ELSE LET parsed == fromisoformat(ReplaceZ(raw[1]))
         IN  IF parsed = None THEN old ELSE parsed

\* details.get("question") or details.get("title") or ""
QuestionOf(d) == IF Truthy(d.question) THEN d.question[1] ELSE ""

\* _derive_no_side_quotes: the NO-side pairs it may leave, given the
\* YES side and the NO side stored before the call
DeriveNoSide_Swapped(bid_yes, ask_yes, old_bid_no, old_ask_no) ==
    { [best_ask_no |-> a, best_bid_no |-> b] :
        a \in (IF ask_yes # None
               THEN {Some(r) : r \in Round(Complement(ask_yes[1]))}
               ELSE {old_ask_no}),
        b \in (IF bid_yes # None
               THEN {Some(r) : r \in Round(Complement(bid_yes[1]))}
               ELSE {old_bid_no}) }

DeriveNoSide(bid_yes, ask_yes, old_bid_no, old_ask_no) ==
    { [best_ask_no |-> a, best_bid_no |-> b] :
        a \in (IF bid_yes # None
               THEN {Some(r) : r \in Round(Complement(bid_yes[1]))}
               ELSE {old_ask_no}),
        b \in (IF ask_yes # None
               THEN {Some(r) : r \in Round(Complement(ask_yes[1]))}
               ELSE {old_bid_no}) }

NoFeed == [details |-> None, trades |-> None, history_yes |-> None,
           history_no |-> None]

\* a call that takes no hours_back and no fidelity
NoArgs == None

\* the threads that share one PolymarketMarket
Threads == {"A", "B"}

\* a thread that has not called refresh_quotes
Idle == [pc |-> "idle", details |-> None, read |-> None]

(***************************************************************************)
(* State before any call.                                                  *)
(***************************************************************************)
Init ==
    /\ constructed = FALSE
    /\ question = ""
    /\ clob_token_yes = None
    /\ clob_token_no = None
    /\ active = TRUE
    /\ closed = FALSE
    /\ end_date = None
    /\ best_bid_yes = None
    /\ best_ask_yes = None
    /\ best_bid_no = None
    /\ best_ask_no = None
    /\ trades_yes = None
    /\ trades_no = None
    /\ price_history_yes = None
    /\ price_history_no = None
    /\ op = "none"
    /\ raised = "none"
    /\ requests = 0
    /\ fed = NoFeed
    /\ ret = None
    /\ args = NoArgs
    /\ sent = << >>
    /\ threads = [t \in Threads |-> Idle]

(***************************************************************************)
(* from_market_id(client, market_id), answered d by the metadata feed.     *)
(* d.ok = FALSE: get_market_details raised.                                *)
(***************************************************************************)
FromMarketId(d) ==
    /\ ~constructed
    /\ op' = "from_market_id"
    /\ UNCHANGED threads
    /\ requests' = 1
    /\ fed' = [NoFeed EXCEPT !.details = Some(d)]
    /\ ret' = None
    /\ args' = NoArgs
    /\ sent' = << >>
    /\ LET t == ParseTokens(d.clobTokenIds)
       IN  IF ~d.ok
           THEN /\ raised' = "HTTPError"
                /\ UNCHANGED market
           ELSE IF t.raised # "none"
           THEN /\ raised' = t.raised
                /\ UNCHANGED market
           ELSE /\ raised' = "none"
                /\ constructed' = TRUE
                /\ question' = QuestionOf(d)
                /\ clob_token_yes' = t.yes
                /\ clob_token_no' = t.no
                /\ active' = d.active
                /\ closed' = d.closed
                /\ end_date' = PostInitEndDate(d.endDate)
                /\ best_bid_yes' = d.bestBid
                /\ best_ask_yes' = d.bestAsk
                /\ \E q \in DeriveNoSide(d.bestBid, d.bestAsk, None, None) :
                      /\ best_ask_no' = q.best_ask_no
                      /\ best_bid_no' = q.best_bid_no
                /\ UNCHANGED <<trades_yes, trades_no, price_history_yes,
                               price_history_no>>

(***************************************************************************)
(* refresh_quotes(client), answered d by the metadata feed.                *)
(***************************************************************************)
RefreshQuotes_ReparseTokens(d) ==
    /\ constructed
    /\ op' = "refresh_quotes"
    /\ UNCHANGED threads
    /\ requests' = 1
    /\ fed' = [NoFeed EXCEPT !.details = Some(d)]
    /\ ret' = None
    /\ args' = NoArgs
    /\ sent' = << >>
    /\ IF ~d.ok
       THEN /\ raised' = "HTTPError"
            /\ UNCHANGED market
       ELSE /\ raised' = "none"
            /\ best_bid_yes' = d.bestBid
            /\ best_ask_yes' = d.bestAsk
            /\ active' = d.active
            /\ closed' = d.closed
            /\ end_date' = RefreshEndDate(d.endDate, end_date)
            /\ clob_token_yes' = ParseTokens(d.clobTokenIds).yes
            /\ clob_token_no' = ParseTokens(d.clobTokenIds).no
            /\ \E q \in DeriveNoSide(d.bestBid, d.bestAsk,
                                     best_bid_no, best_ask_no) :
                  /\ best_ask_no' = q.best_ask_no
                  /\ best_bid_no' = q.best_bid_no
            /\ UNCHANGED <<constructed, question,
                           trades_yes, trades_no, price_history_yes,
                           price_history_no>>

RefreshQuotes(d) ==
    /\ constructed
    /\ op' = "refresh_quotes"
    /\ UNCHANGED threads
    /\ requests' = 1
    /\ fed' = [NoFeed EXCEPT !.details = Some(d)]
    /\ ret' = None
    /\ args' = NoArgs
    /\ sent' = << >>
    /\ IF ~d.ok
       THEN /\ raised' = "HTTPError"
            /\ UNCHANGED market
       ELSE /\ raised' = "none"
            /\ best_bid_yes' = d.bestBid
            /\ best_ask_yes' = d.bestAsk
            /\ active' = d.active
            /\ closed' = d.closed
            /\ end_date' = RefreshEndDate(d.endDate, end_date)
            /\ \E q \in DeriveNoSide(d.bestBid, d.bestAsk,
                                     best_bid_no, best_ask_no) :
                  /\ best_ask_no' = q.best_ask_no
                  /\ best_bid_no' = q.best_bid_no
            /\ UNCHANGED <<constructed, question, clob_token_yes, clob_token_no,
                           trades_yes, trades_no, price_history_yes,
                           price_history_no>>

(***************************************************************************)
(* refresh_quotes statement by statement, for threads that share the       *)
(* object.  It takes no lock, so a thread may be preempted between any two *)
(* attribute reads and writes; each action below is one of them.  step     *)
(* moves thread t from one position to the next.                           *)
(***************************************************************************)
At(t, pc) == threads[t].pc = pc

Goto(t, pc) == threads' = [threads EXCEPT ![t].pc = pc]

\* details = client.get_market_details(self.market_id)
ThreadFetch(t, d) ==
    /\ constructed
    /\ At(t, "idle")
    /\ d.ok
    /\ threads' = [threads EXCEPT ![t].pc = "best_bid_yes", ![t].details = Some(d)]
    /\ UNCHANGED <<market, call>>

\* self.best_bid_yes = details.get("bestBid")
ThreadWriteBidYes(t) ==
    /\ At(t, "best_bid_yes")
    /\ best_bid_yes' = threads[t].details[1].bestBid
    /\ Goto(t, "best_ask_yes")
    /\ UNCHANGED <<constructed, question, clob_token_yes, clob_token_no, active,
                   closed, end_date, best_ask_yes, best_bid_no, best_ask_no,
                   trades_yes, trades_no, price_history_yes, price_history_no,
                   call>>

\* self.best_ask_yes = details.get("bestAsk")
ThreadWriteAskYes(t) ==
    /\ At(t, "best_ask_yes")
    /\ best_ask_yes' = threads[t].details[1].bestAsk
    /\ Goto(t, "active")
    /\ UNCHANGED <<constructed, question, clob_token_yes, clob_token_no, active,
                   closed, end_date, best_bid_yes, best_bid_no, best_ask_no,
                   trades_yes, trades_no, price_history_yes, price_history_no,
                   call>>

\* self.active = bool(details.get("active"))
ThreadWriteActive(t) ==
    /\ At(t, "active")
    /\ active' = threads[t].details[1].active
    /\ Goto(t, "closed")
    /\ UNCHANGED <<constructed, question, clob_token_yes, clob_token_no, closed,
                   end_date, best_bid_yes, best_ask_yes, best_bid_no,
                   best_ask_no, trades_yes, trades_no, price_history_yes,
                   price_history_no, call>>

\* self.closed = bool(details.get("closed"))
ThreadWriteClosed(t) ==
    /\ At(t, "closed")
    /\ closed' = threads[t].details[1].closed
    /\ Goto(t, "end_date")
    /\ UNCHANGED <<constructed, question, clob_token_yes, clob_token_no, active,
                   end_date, best_bid_yes, best_ask_yes, best_bid_no,
                   best_ask_no, trades_yes, trades_no, price_history_yes,
                   price_history_no, call>>

\* the end-date block: one assignment, or none
ThreadWriteEndDate(t) ==
    /\ At(t, "end_date")
    /\ end_date' = RefreshEndDate(threads[t].details[1].endDate, end_date)
    /\ Goto(t, "if_bid_yes")
    /\ UNCHANGED <<constructed, question, clob_token_yes, clob_token_no, active,
                   closed, best_bid_yes, best_ask_yes, best_bid_no, best_ask_no,
                   trades_yes, trades_no, price_history_yes, price_history_no,
                   call>>

\* if self.best_bid_yes is not None:
ThreadIfBidYes(t) ==
    /\ At(t, "if_bid_yes")
    /\ Goto(t, IF best_bid_yes # None THEN "read_bid_yes" ELSE "if_ask_yes")
    /\ UNCHANGED <<market, call>>

\* the operand of round(1.0 - self.best_bid_yes, 6): the attribute is read
\* again, and 1.0 - None raises TypeError
ThreadReadBidYes(t) ==
    /\ At(t, "read_bid_yes")
    /\ threads' = [threads EXCEPT
                      ![t].pc = IF best_bid_yes = None THEN "TypeError" ELSE "best_ask_no",
                      ![t].read = best_bid_yes]
    /\ UNCHANGED <<market, call>>

\* self.best_ask_no = round(1.0 - <the value read>, 6)
ThreadWriteAskNo(t) ==
    /\ At(t, "best_ask_no")
    /\ best_ask_no' \in { Some(r) : r \in Round(Complement(threads[t].read[1])) }
    /\ Goto(t, "if_ask_yes")
    /\ UNCHANGED <<constructed, question, clob_token_yes, clob_token_no, active,
                   closed, end_date, best_bid_yes, best_ask_yes, best_bid_no,
                   trades_yes, trades_no, price_history_yes, price_history_no,
                   call>>

\* if self.best_ask_yes is not None:
ThreadIfAskYes(t) ==
    /\ At(t, "if_ask_yes")
    /\ Goto(t, IF best_ask_yes # None THEN "read_ask_yes" ELSE "done")
    /\ UNCHANGED <<market, call>>

\* the operand of round(1.0 - self.best_ask_yes, 6)
ThreadReadAskYes(t) ==
    /\ At(t, "read_ask_yes")
    /\ threads' = [threads EXCEPT
                      ![t].pc = IF best_ask_yes = None THEN "TypeError" ELSE "best_bid_no",
                      ![t].read = best_ask_yes]
    /\ UNCHANGED <<market, call>>

\* self.best_bid_no = round(1.0 - <the value read>, 6)
ThreadWriteBidNo(t) ==
    /\ At(t, "best_bid_no")
    /\ best_bid_no' \in { Some(r) : r \in Round(Complement(threads[t].read[1])) }
    /\ Goto(t, "done")
    /\ UNCHANGED <<constructed, question, clob_token_yes, clob_token_no, active,
                   closed, end_date, best_bid_yes, best_ask_yes, best_ask_no,
                   trades_yes, trades_no, price_history_yes, price_history_no,
                   call>>

(***************************************************************************)
(* Sorting.  DataFrame.sort_values("timestamp") is called with the default *)
(* kind, "quicksort", which is not a stable sort: rows with equal          *)
(* timestamps may come out in any order.                                   *)
(***************************************************************************)
IsSortedByTimestamp(s) ==
    \A i \in 1..Len(s) : \A j \in 1..Len(s) :
        i < j => s[i].timestamp <= s[j].timestamp

\* the orders of the rows of s
Orders(s) ==
    { [i \in 1..Len(s) |-> s[p[i]]] : p \in Permutations(1..Len(s)) }

SortValues(s) == { r \in Orders(s) : IsSortedByTimestamp(r) }

\* the one order a stable sort would give: equal timestamps keep their
\* order in s
IsStableOrderOf(r, s) ==
    \E p \in Permutations(1..Len(s)) :
        /\ Len(r) = Len(s)
        /\ \A i \in 1..Len(s) : r[i] = s[p[i]]
        /\ \A i \in 1..Len(s) : \A j \in 1..Len(s) :
              i < j => \/ s[p[i]].timestamp < s[p[j]].timestamp
                       \/ /\ s[p[i]].timestamp = s[p[j]].timestamp
                          /\ p[i] < p[j]

\* number of rows of s equal to x
Count(s, x) == Cardinality({ i \in 1..Len(s) : s[i] = x })

(***************************************************************************)
(* The trade feed and load_all_trades.                                     *)
(***************************************************************************)
\* a trade of the /trades response; price.num = FALSE is a price that
\* float() rejects
Trade(asset, timestamp, price) ==
    [asset |-> asset, timestamp |-> timestamp, price |-> [num |-> TRUE, v |-> price]]

BadTrade(asset, timestamp) ==
    [asset |-> asset, timestamp |-> timestamp, price |-> [num |-> FALSE, v |-> 0]]

\* not self.clob_token_yes or not self.clob_token_no
TokensUnset_OnlyYes(yes, no) == ~Truthy(yes)

TokensUnset(yes, no) == ~Truthy(yes) \/ ~Truthy(no)

\* _fetch_trades_for_market after the response arrived: the exception
\* df["price"].astype(float) raises ("none" if none)
FetchTradesRaised(raw) ==
    IF \E i \in 1..Len(raw) : ~raw[i].price.num THEN "ValueError" ELSE "none"

\* _fetch_trades_for_market: the frames it may return when it returns
FetchTradesFrames(raw) ==
    SortValues([i \in 1..Len(raw) |->
                   [asset |-> raw[i].asset,
                    timestamp |-> raw[i].timestamp,
                    price |-> raw[i].price.v]])

\* df_all.loc[df_all["asset"] == token, ["timestamp", "price"]], price
\* renamed p
LegRows_Everything(df_all, token) ==
    [i \in 1..Len(df_all) |->
        [timestamp |-> df_all[i].timestamp, p |-> df_all[i].price]]

LegRows(df_all, token) ==
    LET sel == SelectSeq(df_all, LAMBDA row : Some(row.asset) = token)
    IN  [i \in 1..Len(sel) |-> [timestamp |-> sel[i].timestamp, p |-> sel[i].price]]

\* load_all_trades(), answered t by the trade feed (t.ok = FALSE: the
\* request raised)
LoadAllTrades(t) ==
    /\ constructed
    /\ op' = "load_all_trades"
    /\ UNCHANGED threads
    /\ ret' = None
    /\ args' = NoArgs
    /\ sent' = << >>
    /\ IF TokensUnset(clob_token_yes, clob_token_no)
       THEN /\ raised' = "ValueError: tokens not set"
            /\ requests' = 0
            /\ fed' = NoFeed
            /\ UNCHANGED market
       ELSE /\ requests' = 1
            /\ fed' = [NoFeed EXCEPT !.trades = Some(t)]
            /\ IF ~t.ok
               THEN /\ raised' = "HTTPError"
                    /\ UNCHANGED market
               ELSE IF FetchTradesRaised(t.rows) # "none"
               THEN /\ raised' = FetchTradesRaised(t.rows)
                    /\ UNCHANGED market
               ELSE /\ raised' = "none"
                    /\ \E df_all \in FetchTradesFrames(t.rows) :
                          /\ trades_yes' \in
                               { Some(l) : l \in SortValues(LegRows(df_all, clob_token_yes)) }
                          /\ trades_no' \in
                               { Some(l) : l \in SortValues(LegRows(df_all, clob_token_no)) }
                    /\ UNCHANGED <<constructed, question, clob_token_yes,
                                   clob_token_no, active, closed, end_date,
                                   best_bid_yes, best_ask_yes, best_bid_no,
                                   best_ask_no, price_history_yes,
                                   price_history_no>>

(***************************************************************************)
(* build_yes_price_history().                                              *)
(***************************************************************************)
\* the rows list before the sort: YES trades, then inverted NO trades
YesRows(leg) ==
    IF leg = None THEN << >>
    ELSE [i \in 1..Len(leg[1]) |->
            [timestamp |-> leg[1][i].timestamp, yes_price |-> leg[1][i].p,
             source |-> "yes"]]

NoRows_NotInverted(leg) ==
    IF leg = None THEN << >>
    ELSE [i \in 1..Len(leg[1]) |->
            [timestamp |-> leg[1][i].timestamp, yes_price |-> leg[1][i].p,
             source |-> "no"]]

NoRows(leg) ==
    IF leg = None THEN << >>
    ELSE [i \in 1..Len(leg[1]) |->
            [timestamp |-> leg[1][i].timestamp,
             yes_price |-> Complement(leg[1][i].p),
             source |-> "no"]]

BuildYesPriceHistory ==
    /\ constructed
    /\ op' = "build_yes_price_history"
    /\ UNCHANGED threads
    /\ requests' = 0
    /\ fed' = NoFeed
    /\ args' = NoArgs
    /\ sent' = << >>
    /\ UNCHANGED market
    /\ IF trades_yes = None /\ trades_no = None
       THEN /\ raised' = "RuntimeError"
            /\ ret' = None
       ELSE /\ raised' = "none"
            /\ ret' \in { Some(df) :
                            df \in SortValues(YesRows(trades_yes) \o NoRows(trades_no)) }

(***************************************************************************)
(* The history feed and load_price_history.                                *)
(***************************************************************************)
\* a point of the /prices-history response
Point(t, p) == [t |-> t, p |-> p]

\* _fetch_prices_history: the exception it raises ("none" if none); h.ok =
\* FALSE is a request that raised
FetchPricesRaised(h) == IF ~h.ok THEN "HTTPError" ELSE "none"

\* _fetch_prices_history: the frames it may return when it returns
FetchPricesFrames(h) ==
    SortValues([i \in 1..Len(h.history) |->
                   [timestamp |-> h.history[i].t, price |-> h.history[i].p]])

\* the mapping with a one-day bucket for the 1440-minute size only
Interval_ExactDay(fidelity) ==
    IF fidelity = 1 THEN "1m"
    ELSE IF fidelity = 5 THEN "5m"
    ELSE IF fidelity = 15 THEN "15m"
    ELSE IF fidelity \in {60, 30} THEN "1h"
    ELSE IF fidelity = 1440 THEN "1d"
    ELSE "5m"

\* lines 325-337 of _fetch_prices_history: the interval string requested
\* for a bucket size in minutes
Interval(fidelity) ==
    IF fidelity = 1 THEN "1m"
    ELSE IF fidelity = 5 THEN "5m"
    ELSE IF fidelity = 15 THEN "15m"
    ELSE IF fidelity \in {60, 30} THEN "1h"
    ELSE IF fidelity >= 1440 THEN "1d"
    ELSE "5m"

\* the params of the /prices-history request for a token; span is
\* endTs - startTs, endTs being int(time.time())
Params(token, hours_back, fidelity) ==
    [market |-> token[1], span |-> hours_back * 3600, interval |-> Interval(fidelity)]

\* load_price_history that stores the two legs only once both are fetched
LoadPriceHistory_AllOrNothing(hy, hn, hours_back, fidelity) ==
    /\ constructed
    /\ op' = "load_price_history"
    /\ UNCHANGED threads
    /\ ret' = None
    /\ args' = Some([hours_back |-> hours_back, fidelity |-> fidelity])
    /\ IF TokensUnset(clob_token_yes, clob_token_no)
       THEN /\ raised' = "ValueError: tokens not set"
            /\ requests' = 0
            /\ sent' = << >>
            /\ fed' = NoFeed
            /\ UNCHANGED market
       ELSE IF FetchPricesRaised(hy) # "none"
       THEN /\ raised' = FetchPricesRaised(hy)
            /\ requests' = 1
            /\ sent' = <<Params(clob_token_yes, hours_back, fidelity)>>
            /\ fed' = [NoFeed EXCEPT !.history_yes = Some(hy)]
            /\ UNCHANGED market
       ELSE /\ requests' = 2
            /\ sent' = <<Params(clob_token_yes, hours_back, fidelity),
                         Params(clob_token_no, hours_back, fidelity)>>
            /\ fed' = [NoFeed EXCEPT !.history_yes = Some(hy),
                                     !.history_no = Some(hn)]
            /\ IF FetchPricesRaised(hn) # "none"
               THEN /\ raised' = FetchPricesRaised(hn)
                    /\ UNCHANGED <<price_history_yes, price_history_no>>
               ELSE /\ raised' = "none"
                    /\ price_history_yes' \in { Some(f) : f \in FetchPricesFrames(hy) }
                    /\ price_history_no' \in { Some(f) : f \in FetchPricesFrames(hn) }
            /\ UNCHANGED <<constructed, question, clob_token_yes,
                           clob_token_no, active, closed, end_date,
                           best_bid_yes, best_ask_yes, best_bid_no,
                           best_ask_no, trades_yes, trades_no>>

\* load_price_history(client, hours_back, fidelity), answered hy for the
\* YES token and hn for the NO token
LoadPriceHistory(hy, hn, hours_back, fidelity) ==
    /\ constructed
    /\ op' = "load_price_history"
    /\ UNCHANGED threads
    /\ ret' = None
    /\ args' = Some([hours_back |-> hours_back, fidelity |-> fidelity])
    /\ IF TokensUnset(clob_token_yes, clob_token_no)
       THEN /\ raised' = "ValueError: tokens not set"
            /\ requests' = 0
            /\ sent' = << >>
            /\ fed' = NoFeed
            /\ UNCHANGED market
       ELSE IF FetchPricesRaised(hy) # "none"
       THEN /\ raised' = FetchPricesRaised(hy)
            /\ requests' = 1
            /\ sent' = <<Params(clob_token_yes, hours_back, fidelity)>>
            /\ fed' = [NoFeed EXCEPT !.history_yes = Some(hy)]
            /\ UNCHANGED market
       ELSE /\ requests' = 2
            /\ sent' = <<Params(clob_token_yes, hours_back, fidelity),
                         Params(clob_token_no, hours_back, fidelity)>>
            /\ fed' = [NoFeed EXCEPT !.history_yes = Some(hy),
                                     !.history_no = Some(hn)]
            /\ price_history_yes' \in { Some(f) : f \in FetchPricesFrames(hy) }
            /\ IF FetchPricesRaised(hn) # "none"
               THEN /\ raised' = FetchPricesRaised(hn)
                    /\ UNCHANGED price_history_no
               ELSE /\ raised' = "none"
                    /\ price_history_no' \in { Some(f) : f \in FetchPricesFrames(hn) }
            /\ UNCHANGED <<constructed, question, clob_token_yes,
                           clob_token_no, active, closed, end_date,
                           best_bid_yes, best_ask_yes, best_bid_no,
                           best_ask_no, trades_yes, trades_no>>

(***************************************************************************)
(* The quote specification: a market is built and refreshed with every     *)
(* combination of best bid and best ask.                                   *)
(***************************************************************************)
QuoteValues ==
    { None, Some(0), Some(Dec(62, 2)), Some(Dec(65, 2)), Some(Dec(1234565, 7)),
      Some(Dec(1234567, 7)), Some(One) }

QuoteDetails ==
    [ ok : BOOLEAN,
      question : {Some("Q")},
      active : {TRUE},
      closed : {FALSE},
      endDate : {None},
      clobTokenIds : {Some("[\"Y\",\"N\"]")},
      bestBid : QuoteValues,
      bestAsk : QuoteValues ]

QuoteConstruct == \E d \in QuoteDetails : FromMarketId(d)

QuoteRefresh == \E d \in QuoteDetails : RefreshQuotes(d)

NextQuotes == QuoteConstruct \/ QuoteRefresh

SpecQuotes == Init /\ [][NextQuotes]_vars

(***************************************************************************)
(* The trade specification: a market with two tokens loads every trade     *)
(* list of up to MaxTrades trades and merges its legs.                     *)
(***************************************************************************)
SeqsUpTo(S, n) == UNION { [1..k -> S] : k \in 0..n }

TradeRecords ==
    { Trade("Y", 100, Dec(40, 2)),
      Trade("Y", 50, Dec(60, 2)),
      Trade("N", 100, Dec(55, 2)),
      Trade("X", 100, Dec(50, 2)) }

TradeFeeds ==
    { [ok |-> TRUE, rows |-> r] : r \in SeqsUpTo(TradeRecords, MaxTrades) }
        \cup { [ok |-> FALSE, rows |-> << >>] }

TradeDetails ==
    [ ok : {TRUE},
      question : {Some("Q")},
      active : {TRUE},
      closed : {FALSE},
      endDate : {None},
      clobTokenIds : {Some("[\"Y\",\"N\"]"), Some("[\"Y\",\"Y\"]")},
      bestBid : {None},
      bestAsk : {None} ]

TradeConstruct == \E d \in TradeDetails : FromMarketId(d)

TradeLoad == \E t \in TradeFeeds : LoadAllTrades(t)

NextTrades == TradeConstruct \/ TradeLoad \/ BuildYesPriceHistory

SpecTrades == Init /\ [][NextTrades]_vars

(***************************************************************************)
(* The history specification: a market with two tokens loads every pair    *)
(* of history lists of up to MaxHistory points.                            *)
(***************************************************************************)
\* hours_back: int = 24
DefaultHoursBack == 24

\* fidelity: int = 5
DefaultFidelity == 5

PointRecords ==
    { Point(100, Dec(40, 2)), Point(50, Dec(60, 2)) }

HistoryFeeds ==
    { [ok |-> TRUE, history |-> r] : r \in SeqsUpTo(PointRecords, MaxHistory) }
        \cup { [ok |-> FALSE, history |-> << >>] }

HistoryDetails ==
    [ ok : {TRUE},
      question : {Some("Q")},
      active : {TRUE},
      closed : {FALSE},
      endDate : {None},
      clobTokenIds : {Some("[\"Y\",\"N\"]"), Some("[\"Y\"]")},
      bestBid : {None},
      bestAsk : {None} ]

HistoryConstruct == \E d \in HistoryDetails : FromMarketId(d)

HistoryLoad ==
    \E hy \in HistoryFeeds : \E hn \in HistoryFeeds :
        LoadPriceHistory(hy, hn, DefaultHoursBack, DefaultFidelity)

NextHistory == HistoryConstruct \/ HistoryLoad

SpecHistory == Init /\ [][NextHistory]_vars

(***************************************************************************)
(* The whole object: every operation, on every shape of token list.        *)
(***************************************************************************)
BaseDetails ==
    [ ok |-> TRUE, question |-> Some("Q"), active |-> TRUE, closed |-> FALSE,
      endDate |-> Some("2025-01-01T00:00:00Z"),
      clobTokenIds |-> Some("[\"Y\",\"N\"]"),
      bestBid |-> Some(Dec(62, 2)), bestAsk |-> Some(Dec(65, 2)) ]

Details ==
    { [BaseDetails EXCEPT !.clobTokenIds = v] : v \in TokenFieldValues }
        \cup { [BaseDetails EXCEPT !.ok = FALSE],
               [BaseDetails EXCEPT !.question = None, !.active = FALSE,
                                   !.closed = TRUE, !.endDate = Some("tomorrow")],
               [BaseDetails EXCEPT !.bestBid = None, !.endDate = None],
               [BaseDetails EXCEPT !.bestAsk = None,
                                   !.endDate = Some("2026-06-30T12:00:00+00:00")] }

SmallTradeFeeds ==
    { [ok |-> FALSE, rows |-> << >>],
      [ok |-> TRUE, rows |-> << >>],
      [ok |-> TRUE, rows |-> <<Trade("N", 100, Dec(55, 2)), Trade("Y", 100, Dec(40, 2))>>],
      [ok |-> TRUE, rows |-> <<BadTrade("Y", 100), Trade("N", 100, Dec(55, 2))>>] }

SmallHistoryFeeds ==
    { [ok |-> FALSE, history |-> << >>],
      [ok |-> TRUE, history |-> << >>],
      [ok |-> TRUE, history |-> <<Point(100, Dec(40, 2))>>] }

Construct == \E d \in Details : FromMarketId(d)

Refresh == \E d \in Details : RefreshQuotes(d)

LoadTrades == \E t \in SmallTradeFeeds : LoadAllTrades(t)

LoadHistory ==
    \E hy \in SmallHistoryFeeds : \E hn \in SmallHistoryFeeds :
        LoadPriceHistory(hy, hn, DefaultHoursBack, DefaultFidelity)

Next == Construct \/ Refresh \/ LoadTrades \/ LoadHistory \/ BuildYesPriceHistory

Spec == Init /\ [][Next]_vars

(***************************************************************************)
(* SpecIntervals: load_price_history called with every kind of bucket      *)
(* size and several lookbacks, on a market with or without both tokens.    *)
(***************************************************************************)
\* the named sizes, the thirty-minute size, sizes between them, below them
\* and above a day
Fidelities == {0, 1, 5, 7, 15, 30, 60, 1440, 2000}

\* lookbacks in hours: within an hour, within six hours, the default day,
\* and beyond a week
Lookbacks == {1, 2, DefaultHoursBack, 200}

IntervalConstruct == \E d \in HistoryDetails : FromMarketId(d)

IntervalLoad ==
    \E hy \in SmallHistoryFeeds : \E hn \in SmallHistoryFeeds :
        \E hours_back \in Lookbacks : \E fidelity \in Fidelities :
            LoadPriceHistory(hy, hn, hours_back, fidelity)

NextIntervals == IntervalConstruct \/ IntervalLoad

SpecIntervals == Init /\ [][NextIntervals]_vars

(***************************************************************************)
(* SpecShared: one market, constructed once, on which each thread calls    *)
(* refresh_quotes once; every fetch succeeds.                              *)
(***************************************************************************)
SharedDetails ==
    { BaseDetails,
      [BaseDetails EXCEPT !.bestBid = Some(Dec(40, 2)), !.bestAsk = Some(Dec(45, 2)),
                          !.active = FALSE, !.closed = TRUE],
      [BaseDetails EXCEPT !.bestBid = None, !.bestAsk = None] }

SharedConstruct == \E d \in SharedDetails : FromMarketId(d)

SharedFetch == \E t \in Threads : \E d \in SharedDetails : ThreadFetch(t, d)

SharedStep ==
    \E t \in Threads :
        \/ ThreadWriteBidYes(t)
        \/ ThreadWriteAskYes(t)
        \/ ThreadWriteActive(t)
        \/ ThreadWriteClosed(t)
        \/ ThreadWriteEndDate(t)
        \/ ThreadIfBidYes(t)
        \/ ThreadReadBidYes(t)
        \/ ThreadWriteAskNo(t)
        \/ ThreadIfAskYes(t)
        \/ ThreadReadAskYes(t)
        \/ ThreadWriteBidNo(t)

NextShared == SharedConstruct \/ SharedFetch \/ SharedStep

SpecShared == Init /\ [][NextShared]_vars


(***************************************************************************)
(* Properties.                                                             *)
(***************************************************************************)
\* r is x rounded to Ndigits decimal places
IsRounded(r, x) == r % Quantum = 0 /\ 2 * Abs(r - x) <= Quantum

\* C1: whenever bid_yes (ask_yes) is present, the stored ask_no (bid_no) is
\* 1 - bid_yes (1 - ask_yes) rounded to 6 decimal places; bid_yes = 0.62 and
\* ask_yes = 0.65 give bid_no = 0.35 and ask_no = 0.38.
QuoteDerivationValue ==
    /\ best_bid_yes # None =>
          /\ best_ask_no # None
          /\ IsRounded(best_ask_no[1], One - best_bid_yes[1])
    /\ best_ask_yes # None =>
          /\ best_bid_no # None
          /\ IsRounded(best_bid_no[1], One - best_ask_yes[1])
    /\ (best_bid_yes = Some(Dec(62, 2)) /\ best_ask_yes = Some(Dec(65, 2))) =>
          (best_bid_no = Some(Dec(35, 2)) /\ best_ask_no = Some(Dec(38, 2)))

QuoteScenarioRefreshed ==
    /\ op = "refresh_quotes"
    /\ raised = "none"
    /\ best_bid_yes = Some(Dec(62, 2))
    /\ best_ask_yes = Some(Dec(65, 2))
    /\ best_bid_no = Some(Dec(35, 2))
    /\ best_ask_no = Some(Dec(38, 2))

\* C2: ask_no is present if and only if bid_yes is present, and bid_no is
\* present if and only if ask_yes is present, after from_market_id and after
\* every refresh_quotes.
DerivedQuotePresence ==
    /\ (best_ask_no # None) <=> (best_bid_yes # None)
    /\ (best_bid_no # None) <=> (best_ask_yes # None)

\* C3: a refresh_quotes call leaves the tokens, the trade legs, the history
\* legs and the identity of the market unchanged.
RefreshQuotesFrame ==
    [][op' = "refresh_quotes" =>
          UNCHANGED <<constructed, question, clob_token_yes, clob_token_no,
                      trades_yes, trades_no, price_history_yes,
                      price_history_no>>]_vars

RefreshedLoadedMarket ==
    /\ op = "refresh_quotes"
    /\ raised = "none"
    /\ fed.details[1].clobTokenIds = Some("[]")
    /\ clob_token_yes = Some("Y")
    /\ clob_token_no = Some("N")
    /\ trades_yes # None /\ trades_yes[1] # << >>
    /\ price_history_yes # None /\ price_history_yes[1] # << >>
    /\ best_bid_yes = Some(Dec(62, 2))

\* a token that is None or the empty string
Unset(token) == token = None \/ token = Some("")

\* C4: with token_yes or token_no unset, load_all_trades and
\* load_price_history raise the tokens-not-set error, issue no request and
\* leave the trade legs and the history legs unchanged.
TokensUnavailableFailFast ==
    [][(/\ op' \in {"load_all_trades", "load_price_history"}
        /\ (Unset(clob_token_yes) \/ Unset(clob_token_no)))
       => (/\ raised' = "ValueError: tokens not set"
           /\ requests' = 0
           /\ UNCHANGED <<trades_yes, trades_no, price_history_yes,
                          price_history_no>>)]_vars

LoadFailedFast ==
    /\ op = "load_all_trades"
    /\ clob_token_yes = Some("Y")
    /\ clob_token_no = Some("")
    /\ raised = "ValueError: tokens not set"
    /\ requests = 0

\* the clobTokenIds field does not decode, or decodes to fewer than two
\* entries
MalformedTokenList(raw) ==
    \/ raw = None
    \/ raw = Some("")
    \/ json_loads(raw[1]).kind = "error"
    \/ Len(json_loads(raw[1]).items) < 2

\* C5: on a malformed token list from_market_id still returns a market, with
\* both tokens absent, and every later load_all_trades or load_price_history
\* on it raises the tokens-not-set error.
MalformedTokenListConstructs ==
    /\ (/\ op = "from_market_id"
        /\ fed.details[1].ok
        /\ MalformedTokenList(fed.details[1].clobTokenIds))
       => (/\ raised = "none"
           /\ constructed
           /\ clob_token_yes = None
           /\ clob_token_no = None)
    /\ (/\ op \in {"load_all_trades", "load_price_history"}
        /\ clob_token_yes = None
        /\ clob_token_no = None)
       => raised = "ValueError: tokens not set"

\* the rows of the fed trade list whose asset is in the set tokens and
\* whose timestamp and price are those of x
Fed(rows, tokens, x) ==
    Cardinality({ i \in 1..Len(rows) :
                    /\ Some(rows[i].asset) \in tokens
                    /\ rows[i].price.num
                    /\ rows[i].timestamp = x.timestamp
                    /\ rows[i].price.v = x.p })

\* the leg rows a fed trade list can give
LegRowsOf(rows) ==
    { [timestamp |-> rows[i].timestamp, p |-> rows[i].price.v] : i \in 1..Len(rows) }

\* the legs hold the matching trades of rows, each in exactly one leg, and
\* are sorted
IsPartition(rows) ==
    /\ \A x \in LegRowsOf(rows) :
          /\ Count(trades_yes[1], x) = Fed(rows, {clob_token_yes}, x)
          /\ Count(trades_no[1], x) = Fed(rows, {clob_token_no}, x)
          /\ Count(trades_yes[1], x) + Count(trades_no[1], x)
                = Fed(rows, {clob_token_yes, clob_token_no}, x)
    /\ \A i \in 1..Len(trades_yes[1]) : trades_yes[1][i] \in LegRowsOf(rows)
    /\ \A i \in 1..Len(trades_no[1]) : trades_no[1][i] \in LegRowsOf(rows)
    /\ IsSortedByTimestamp(trades_yes[1])
    /\ IsSortedByTimestamp(trades_no[1])

\* C6 as stated: after load_all_trades on a market whose two tokens are
\* present, every trade matching a token is in exactly one leg, the leg of
\* its token, every other trade is in no leg, and each leg is sorted.
TradeSplitPartition ==
    (op = "load_all_trades" /\ raised = "none") => IsPartition(fed.trades[1].rows)

\* C6 as amended: the same, for a market whose two tokens are present and
\* distinct.
TradeSplitPartitionDistinct ==
    (/\ op = "load_all_trades"
     /\ raised = "none"
     /\ clob_token_yes # clob_token_no)
    => IsPartition(fed.trades[1].rows)

TradesSplitAndDropped ==
    /\ op = "load_all_trades"
    /\ raised = "none"
    /\ clob_token_yes # clob_token_no
    /\ Len(fed.trades[1].rows) = MaxTrades
    /\ \E i \in 1..MaxTrades : fed.trades[1].rows[i].asset = "X"
    /\ fed.trades[1].rows[1].timestamp > fed.trades[1].rows[MaxTrades].timestamp
    /\ Len(trades_yes[1]) >= 1
    /\ Len(trades_no[1]) = 1

\* C7: a trade whose price is not numeric is dropped alone: the call
\* returns and every other matching trade is in its leg.
PerRecordTradeTolerance ==
    (op = "load_all_trades" /\ requests = 1 /\ fed.trades[1].ok)
    => (/\ raised = "none"
        /\ \A x \in LegRowsOf(fed.trades[1].rows) :
              /\ Count(trades_yes[1], x) = Fed(fed.trades[1].rows, {clob_token_yes}, x)
              /\ Count(trades_no[1], x) = Fed(fed.trades[1].rows, {clob_token_no}, x))

\* the rows of a leg, None being no rows
RowsOf(leg) == IF leg = None THEN << >> ELSE leg[1]

\* the points the merge owes to a leg: the price of a YES trade, the
\* complement of the price of a NO trade
Owed(leg, source) ==
    [i \in 1..Len(RowsOf(leg)) |->
        [timestamp |-> RowsOf(leg)[i].timestamp,
         yes_price |-> IF source = "yes" THEN RowsOf(leg)[i].p
                       ELSE One - RowsOf(leg)[i].p,
         source |-> source]]

\* C8: build_yes_price_history returns one point per YES trade, with its
\* price, and one per NO trade, with the complement of its price, and no
\* other point; a YES trade (100, 0.40) and a NO trade (100, 0.55) give two
\* points at 100, of prices 0.40 and 0.45.
MergeIsMultisetUnion ==
    (op = "build_yes_price_history" /\ raised = "none") =>
        /\ ret # None
        /\ Len(ret[1]) = Len(RowsOf(trades_yes)) + Len(RowsOf(trades_no))
        /\ \A i \in 1..Len(ret[1]) :
              Count(ret[1], ret[1][i])
                 = Count(Owed(trades_yes, "yes"), ret[1][i])
                   + Count(Owed(trades_no, "no"), ret[1][i])
        /\ (/\ RowsOf(trades_yes) = <<[timestamp |-> 100, p |-> Dec(40, 2)]>>
            /\ RowsOf(trades_no) = <<[timestamp |-> 100, p |-> Dec(55, 2)]>>)
           => { ret[1][i] : i \in 1..Len(ret[1]) }
                 = { [timestamp |-> 100, yes_price |-> Dec(40, 2), source |-> "yes"],
                     [timestamp |-> 100, yes_price |-> Dec(45, 2), source |-> "no"] }

MergedScenario ==
    /\ op = "build_yes_price_history"
    /\ raised = "none"
    /\ trades_yes = Some(<<[timestamp |-> 100, p |-> Dec(40, 2)]>>)
    /\ trades_no = Some(<<[timestamp |-> 100, p |-> Dec(55, 2)]>>)
    /\ Len(ret[1]) = 2

\* C9: the merged series is the stable sort by timestamp of the YES points
\* followed by the NO points: timestamps do not decrease, and points of
\* equal timestamp keep their order, YES before NO.
MergeOrderStable ==
    (op = "build_yes_price_history" /\ raised = "none") =>
        IsStableOrderOf(ret[1], Owed(trades_yes, "yes") \o Owed(trades_no, "no"))

\* no two rows of s have the same timestamp
NoTimestampTwice(s) ==
    \A i \in 1..Len(s) : \A j \in 1..Len(s) :
        i # j => s[i].timestamp # s[j].timestamp

\* C10: no stored history leg holds two points of one timestamp, and the
\* merged series holds no two points of one timestamp and one source.
NoSameSourceDuplicates ==
    /\ NoTimestampTwice(RowsOf(price_history_yes))
    /\ NoTimestampTwice(RowsOf(price_history_no))
    /\ (op = "build_yes_price_history" /\ raised = "none") =>
          \A i \in 1..Len(ret[1]) : \A j \in 1..Len(ret[1]) :
              i # j => \/ ret[1][i].timestamp # ret[1][j].timestamp
                       \/ ret[1][i].source # ret[1][j].source


(***************************************************************************)
(* The bucket requested for a bucket size.                                 *)
(***************************************************************************)
\* the last call was load_price_history and it sent requests
SentHistoryRequests ==
    op = "load_price_history" /\ args # NoArgs /\ Len(sent) > 0

\* the bucket of the same size as one of the five named sizes
SameSizeBucket(fidelity) ==
    CASE fidelity = 1 -> "1m"
      [] fidelity = 5 -> "5m"
      [] fidelity = 15 -> "15m"
      [] fidelity = 60 -> "1h"
      [] fidelity = 1440 -> "1d"

NamedSizes == {1, 5, 15, 60, 1440}

\* C11 as stated: every request of load_price_history asks for the bucket of
\* the same size when the size is 1, 5, 15, 60 or 1440 minutes, and for the
\* 5-minute bucket for every other size.
BucketMappingAsStated ==
    SentHistoryRequests =>
        \A i \in 1..Len(sent) :
            sent[i].interval =
                IF args[1].fidelity \in NamedSizes
                THEN SameSizeBucket(args[1].fidelity)
                ELSE "5m"

\* C11 amended: every request of load_price_history asks for the bucket of
\* the same size when the size is 1, 5, 15, 60 or 1440 minutes, for the
\* one-hour bucket when it is 30, for the one-day bucket when it is above
\* 1440, and for the 5-minute bucket for every other size.
BucketMapping ==
    SentHistoryRequests =>
        \A i \in 1..Len(sent) :
            sent[i].interval =
                IF args[1].fidelity \in NamedSizes
                THEN SameSizeBucket(args[1].fidelity)
                ELSE IF args[1].fidelity = 30 THEN "1h"
                ELSE IF args[1].fidelity > 1440 THEN "1d"
                ELSE "5m"

\* both legs were requested with a size above a day
OversizeBucketRequested ==
    /\ SentHistoryRequests
    /\ Len(sent) = 2
    /\ args[1].fidelity > 1440
    /\ raised = "none"

(***************************************************************************)
(* The interval requested for a lookback.                                  *)
(***************************************************************************)
\* the smallest of the one-hour, six-hour, one-day and one-week intervals
\* that is at least the lookback, the unbounded interval when none is
CoveringInterval(hours) ==
    IF hours <= 1 THEN "1h"
    ELSE IF hours <= 6 THEN "6h"
    ELSE IF hours <= 24 THEN "1d"
    ELSE IF hours <= 168 THEN "1w"
    ELSE "max"

\* C12: every request of a history fetch with a lookback in hours asks for
\* the smallest named interval covering the lookback, the unbounded one when
\* none covers it (6 hours for a lookback of 2, unbounded for 200).
RelativeWindowMapping ==
    SentHistoryRequests =>
        \A i \in 1..Len(sent) :
            sent[i].interval = CoveringInterval(args[1].hours_back)

(***************************************************************************)
(* The end date after metadata with a date that does not parse.            *)
(***************************************************************************)
\* the last call was from_market_id or refresh_quotes and the metadata it
\* fetched carries an endDate that is not an ISO-8601 string
BadEndDateFetched ==
    /\ op \in {"from_market_id", "refresh_quotes"}
    /\ fed.details # None
    /\ fed.details[1].ok
    /\ fed.details[1].endDate # None
    /\ fromisoformat(ReplaceZ(fed.details[1].endDate[1])) = None

\* C13: after from_market_id or refresh_quotes has returned on metadata
\* whose endDate cannot be parsed, the market's end_date is absent, whatever
\* an earlier fetch had stored.
EndDateAbsentOnFailure ==
    (BadEndDateFetched /\ raised = "none") => end_date = None

(***************************************************************************)
(* refresh_quotes shared by two threads.                                   *)
(***************************************************************************)
\* every thread has called refresh_quotes and its call has ended
BothCallsEnded == \A t \in Threads : threads[t].pc \in {"done", "TypeError"}

\* the quotes and the status are those of the metadata d, with the NO side
\* the complement of every present YES quote
QuotesOf(d) ==
    /\ best_bid_yes = d.bestBid
    /\ best_ask_yes = d.bestAsk
    /\ active = d.active
    /\ closed = d.closed
    /\ d.bestBid # None =>
           best_ask_no \in { Some(r) : r \in Round(Complement(d.bestBid[1])) }
    /\ d.bestAsk # None =>
           best_bid_no \in { Some(r) : r \in Round(Complement(d.bestAsk[1])) }

\* C14: when the refresh_quotes calls of two threads on one market have
\* ended, however their reads and writes interleaved, neither has raised and
\* the quotes and status are those one of the two calls leaves when run
\* alone, the NO quotes being the complements of the YES quotes.
LastWriterWins ==
    BothCallsEnded =>
        /\ \A t \in Threads : threads[t].pc = "done"
        /\ \E t \in Threads : QuotesOf(threads[t].details[1])

(***************************************************************************)
(* The stored history legs across load_price_history calls.                *)
(***************************************************************************)
\* the step is a load_price_history call that raises
LoadHistoryFails == op' = "load_price_history" /\ raised' # "none"

\* C15 as stated: a load_price_history call that fails, on the token check,
\* the YES fetch or the NO fetch, leaves both stored history legs as they
\* were before the call.
HistoryLegsReplacedAsPair ==
    [][LoadHistoryFails => UNCHANGED <<price_history_yes, price_history_no>>]_vars

\* leg holds exactly the points the feed answered, in timestamp order
IsResultOf(leg, feed) ==
    /\ leg # None
    /\ Len(leg[1]) = Len(feed.history)
    /\ IsSortedByTimestamp(leg[1])
    /\ \A k \in 1..Len(leg[1]) :
          Cardinality({ i \in 1..Len(leg[1]) : leg[1][i] = leg[1][k] })
              = Cardinality({ i \in 1..Len(feed.history) :
                                /\ feed.history[i].t = leg[1][k].timestamp
                                /\ feed.history[i].p = leg[1][k].price })

\* C15 amended: a load_price_history call that fails on the token check or on
\* the YES fetch leaves both stored legs as they were; one that fails on the
\* NO fetch has stored the YES result of that call and leaves the NO leg as
\* it was; one that succeeds stores the YES and NO results of that call.
HistoryLegsReplacedPerToken ==
    [][op' = "load_price_history" =>
          /\ (LoadHistoryFails /\ fed'.history_no = None) =>
                 UNCHANGED <<price_history_yes, price_history_no>>
          /\ (LoadHistoryFails /\ fed'.history_no # None) =>
                 /\ IsResultOf(price_history_yes', fed'.history_yes[1])
                 /\ UNCHANGED price_history_no
          /\ raised' = "none" =>
                 /\ IsResultOf(price_history_yes', fed'.history_yes[1])
                 /\ IsResultOf(price_history_no', fed'.history_no[1])]_vars

\* a call failed on the NO fetch after an earlier call had stored both legs:
\* the YES leg is the new one, the NO leg the earlier one
NoFetchFailedAfterLoad ==
    /\ op = "load_price_history"
    /\ raised # "none"
    /\ fed.history_no # None
    /\ price_history_no # None
    /\ IsResultOf(price_history_yes, fed.history_yes[1])
    /\ Len(price_history_yes[1]) # Len(price_history_no[1])
====
